---- MODULE Spec2Model ----
(***************************************************************************)
(* Token presale backend (src/server.js): the purchase ledger, the account *)
(* ledger and the request handlers that write them.  Every `await` of a    *)
(* handler is a suspension point, so every handler is a small process      *)
(* whose steps run from one await to the next; the two MongoDB collections *)
(* are the shared state.  POST /update-profile and the User schema with    *)
(* the profile fields come from the later server version kept in           *)
(* src/unnamed/part_000.  Spec composes the three writers of src/server.js;*)
(* the other specifications compose the handlers one group of properties   *)
(* is about, over the request bodies that exercise them.                   *)
(*                                                                         *)
(* Numbers.  usdSpent is counted in whole USD and the inputs are multiples *)
(* of 20, so that the 5% bonus (0.05 * usdSpent) is a whole number and the *)
(* integer arithmetic below is exact; IEEE rounding is not modelled.       *)
(***************************************************************************)
EXTENDS Integers, Sequences, FiniteSets, TLC

VARIABLES
    purchases,  \* the Purchase collection, in insertion order
    users,      \* the User collection, in insertion order
    preq,       \* POST /purchase handlers
    ureq,       \* GET /user/:walletAddress handlers
    wreq,       \* POST /webhook/solana-inbound handlers
    freq,       \* POST /update-profile handlers
    raised,     \* the last answer of GET /raised-amount
    areq,       \* POST /upload-avatar handlers
    board       \* the last answer of GET /leaderboard

vars == <<purchases, users, preq, ureq, wreq, freq, raised, areq, board>>

(***************************************************************************)
(* Bounds of the model: how many requests of each kind are served.         *)
(***************************************************************************)
MaxPurchaseReqs == 2
MaxUserReqs == 1
MaxWebhookReqs == 1
MaxProfileReqs == 1
MaxAvatarReqs == 1

PurchaseIds == 1..MaxPurchaseReqs
UserIds == 1..MaxUserReqs
ProfileIds == 1..MaxProfileReqs
AvatarIds == 1..MaxAvatarReqs
WebhookIds == 1..MaxWebhookReqs

(***************************************************************************)
(* JavaScript values.  A string field that is absent from a request body   *)
(* is the empty string (both are falsy and the code only tests truthiness);*)
(* a numeric field is a number or undefined.                               *)
(***************************************************************************)
Null == "null"
Num(n) == [def |-> TRUE, n |-> n]
Undefined == [def |-> FALSE, n |-> 0]
NaN == [def |-> FALSE, n |-> 0]
TruthyStr(s) == s # "" /\ s # Null
\* a test that any number passes (used to test C24)
TruthyNumOrZero(x) == x.def

TruthyNum(x) == x.def /\ x.n # 0
\* parseFloat of a number is the number, of undefined NaN
ParseFloat(x) == IF x.def THEN Num(x.n) ELSE NaN

PRESALE_WALLET == "presale"
\* strings that new PublicKey(...) accepts
PublicKeys == {"w1", "w2", "w3", PRESALE_WALLET}
IsPublicKey(k) == k \in PublicKeys

(***************************************************************************)
(* The Solana ledger, as the RPC node reports it: for every signature the  *)
(* transaction's account keys, or nothing.  It is an environment fixture:  *)
(* t1 and t2 are presale payments signed by w1, t3 is signed by w1 but     *)
(* does not touch the presale wallet, t4 is unknown to the ledger.         *)
(***************************************************************************)
TxIds == {"t1", "t2", "t3", "t4"}
Ledger(sig) ==
    CASE sig = "t1" -> [kind |-> "found", accountKeys |-> <<"w1", PRESALE_WALLET>>]
      [] sig = "t2" -> [kind |-> "found", accountKeys |-> <<"w1", "w3", PRESALE_WALLET>>]
      [] sig = "t3" -> [kind |-> "found", accountKeys |-> <<"w1", "w2">>]
      [] OTHER      -> [kind |-> "null", accountKeys |-> <<>>]

\* what one solanaConnection.getTransaction call can produce: the ledger's
\* answer, a rejected promise (node unreachable, timeout) or a response
\* without transaction.message.
GetTransaction(sig) ==
    { Ledger(sig),
      [kind |-> "throw", accountKeys |-> <<>>],
      [kind |-> "malformed", accountKeys |-> <<>>] }

Range(s) == { s[i] : i \in 1..Len(s) }

\* a try block without the signer check (used to test C15)
ValidateTryAnySigner(txInfo, fromWallet) ==
    IF txInfo.kind = "throw" THEN "throw"
    ELSE IF txInfo.kind = "null" THEN "false"
    ELSE IF ~IsPublicKey(fromWallet) THEN "throw"
    ELSE IF txInfo.kind = "malformed" THEN "throw"
    ELSE IF Len(txInfo.accountKeys) = 0 THEN "throw"
    ELSE IF PRESALE_WALLET \notin Range(txInfo.accountKeys) THEN "false"
    ELSE "true"

\* validateSignatureOnChain's try block: "true", "false", or "throw" when a
\* statement of the block throws.
ValidateTry(txInfo, fromWallet) ==
    IF txInfo.kind = "throw" THEN "throw"
    ELSE IF txInfo.kind = "null" THEN "false"
    ELSE IF ~IsPublicKey(fromWallet) THEN "throw"
    ELSE IF txInfo.kind = "malformed" THEN "throw"
    ELSE IF Len(txInfo.accountKeys) = 0 THEN "throw"
    ELSE IF txInfo.accountKeys[1] # fromWallet THEN "false"
    ELSE IF PRESALE_WALLET \notin Range(txInfo.accountKeys) THEN "false"
    ELSE "true"

\* a catch clause that lets the purchase through
ValidateCatchReturnsTrue(txInfo, fromWallet) ==
    LET r == ValidateTry(txInfo, fromWallet)
    IN  [threw |-> FALSE, value |-> (r # "false")]

\* validateSignatureOnChain: the catch clause turns every throw into false,
\* so the promise it returns never rejects.
ValidateSignatureOnChain(txInfo, fromWallet) ==
    LET r == ValidateTry(txInfo, fromWallet)
    IN  [threw |-> FALSE, value |-> (r = "true")]

\* the verdict of the specification's vocabulary for one verifier call
Verdict(txInfo, fromWallet) ==
    LET r == ValidateTry(txInfo, fromWallet)
    IN  IF r = "true" THEN "Confirmed"
        ELSE IF r = "false" THEN "Rejected" ELSE "Indeterminate"

(***************************************************************************)
(* The collections.  Model.findOne returns the first matching document in  *)
(* natural order, or null (0 here).                                        *)
(***************************************************************************)
FirstIndex(S) == IF S = {} THEN 0 ELSE CHOOSE i \in S : \A j \in S : i <= j

\* a lookup that filters on the wrong field
FindPurchaseByWallet(coll, transactionId) ==
    FirstIndex({ i \in 1..Len(coll) : coll[i].walletAddress = transactionId })

\* a duplicate check that overlooks the Purchases stored without a referral
\* code (used to test C28)
FindPurchaseByTxWithCode(coll, transactionId) ==
    FirstIndex({ i \in 1..Len(coll) : /\ coll[i].transactionId = transactionId
                                      /\ coll[i].referralCodeUsed # Null })

FindPurchaseByTx(coll, transactionId) ==
    FirstIndex({ i \in 1..Len(coll) : coll[i].transactionId = transactionId })

FindUserByWallet(coll, walletAddress) ==
    FirstIndex({ i \in 1..Len(coll) : coll[i].walletAddress = walletAddress })

\* a lookup whose filter is dropped: findOne({}) returns the first document
FindAnyUser(coll, referralCode) == FirstIndex(1..Len(coll))

FindUserByCode(coll, referralCode) ==
    FirstIndex({ i \in 1..Len(coll) : coll[i].referralCode = referralCode })

\* a save that replaces the stored Purchase of the same transaction (used to
\* test C21)
InsertPurchaseUpsert(coll, doc) ==
    LET k == FirstIndex({ i \in 1..Len(coll) :
                            coll[i].transactionId = doc.transactionId })
    IN  [ok |-> TRUE,
         coll |-> IF k = 0 THEN Append(coll, doc) ELSE [coll EXCEPT ![k] = doc]]

\* purchaseSchema declares no index: the insert of a new Purchase succeeds
\* whatever the collection holds.
InsertPurchase(coll, doc) == [ok |-> TRUE, coll |-> Append(coll, doc)]

\* a User collection without its unique indexes (used to test C19)
InsertUserNoIndex(coll, doc) == [ok |-> TRUE, coll |-> Append(coll, doc)]

\* userSchema: walletAddress and referralCode are unique indexes, and the
\* insert of a document that repeats either fails (E11000).
InsertUser(coll, doc) ==
    IF \E i \in 1..Len(coll) :
           \/ coll[i].walletAddress = doc.walletAddress
           \/ coll[i].referralCode = doc.referralCode
    THEN [ok |-> FALSE, coll |-> coll]
    ELSE [ok |-> TRUE, coll |-> Append(coll, doc)]

\* a store call either is served or fails (connection lost, timeout)
StoreOutcomes == {"ok", "error"}

(***************************************************************************)
(* Responses.                                                              *)
(***************************************************************************)
NoResponse == [status |-> 0, kind |-> "none", text |-> ""]
ErrorJson(status, text) == [status |-> status, kind |-> "error", text |-> text]
MessageJson(text) == [status |-> 200, kind |-> "message", text |-> text]
DataJson == [status |-> 200, kind |-> "data", text |-> ""]
\* the framework's own answer to an error no handler caught: not a JSON body
DefaultErrorPage == [status |-> 500, kind |-> "html", text |-> ""]

(***************************************************************************)
(* POST /purchase.  The handler has no try/catch around its store calls:   *)
(* a store call that fails rejects the handler's promise.  Express 4 drops *)
(* the rejection and the request is never answered (a process exit on the  *)
(* unhandled rejection is covered by the behaviours that take no further   *)
(* step); Express 5 passes it to the default error handler.                *)
(***************************************************************************)
UnhandledOutcomes == {NoResponse, DefaultErrorPage}

BonusRatePct == 5
\* a rate of 0.5 instead of 0.05
BonusOfHalf(usdSpent) == (50 * ParseFloat(usdSpent).n) \div 100

Bonus(usdSpent) == (BonusRatePct * ParseFloat(usdSpent).n) \div 100

IdlePurchase ==
    [pc |-> "idle",
     body |-> [walletAddress |-> "", usdSpent |-> Undefined,
               tokensReceived |-> Undefined, transactionId |-> "",
               referralCode |-> ""],
     res |-> NoResponse,
     refUser |-> 0, refEarnings |-> 0,
     \* history of the request, read by the properties only
     \* txInfo, isValid: what getTransaction produced for the request, and
     \* what validateSignatureOnChain returned ("none" before the call)
     txInfo |-> [kind |-> "none", accountKeys |-> <<>>], isValid |-> "none",
     verdict |-> "none", inserted |-> FALSE, credited |-> FALSE,
     refRead |-> 0, failedAt |-> "none", afterRecorded |-> FALSE,
     \* calls: the chain and store calls the handler has made
     calls |-> {}]

Recorded(q) == q.res.status = 200
Duplicate(q) == q.res = ErrorJson(400, "Duplicate transaction detected")
Rejected(q) ==
    q.res \in { ErrorJson(400, "Missing data"),
                ErrorJson(400, "Invalid or fake transaction."),
                ErrorJson(400, "Unable to validate transaction.") }

\* requests are numbered in the order in which they arrive
PurchaseStart(r, body) ==
    /\ preq[r].pc = "idle"
    /\ r > 1 => preq[r - 1].pc # "idle"
    /\ LET after == \E o \in PurchaseIds :
                        /\ preq[o].pc = "done" /\ Recorded(preq[o])
                        /\ preq[o].body.transactionId = body.transactionId
           q == [preq[r] EXCEPT !.body = body, !.afterRecorded = after]
       IN  IF \/ ~TruthyStr(body.walletAddress) \/ ~TruthyNum(body.usdSpent)
              \/ ~TruthyNum(body.tokensReceived) \/ ~TruthyStr(body.transactionId)
           THEN preq' = [preq EXCEPT ![r] =
                    [q EXCEPT !.pc = "done", !.res = ErrorJson(400, "Missing data")]]
           ELSE preq' = [preq EXCEPT ![r] = [q EXCEPT !.pc = "validate"]]
    /\ UNCHANGED <<purchases, users, ureq, wreq, freq, raised, areq, board>>

PurchaseValidate(r) ==
    /\ preq[r].pc = "validate"
    /\ \E txInfo \in GetTransaction(preq[r].body.transactionId) :
         LET b == preq[r].body
             isValid == ValidateSignatureOnChain(txInfo, b.walletAddress)
             q == [preq[r] EXCEPT !.verdict = Verdict(txInfo, b.walletAddress),
                                  !.txInfo = txInfo,
                                  !.calls = @ \cup {"getTransaction"},
                                  !.isValid = IF isValid.threw THEN "threw"
                                              ELSE IF isValid.value THEN "true"
                                              ELSE "false"]
         IN  preq' = [preq EXCEPT ![r] =
                 IF isValid.threw
                 THEN [q EXCEPT !.pc = "done",
                          !.res = ErrorJson(400, "Unable to validate transaction.")]
                 ELSE IF ~isValid.value
                 THEN [q EXCEPT !.pc = "done",
                          !.res = ErrorJson(400, "Invalid or fake transaction.")]
                 ELSE [q EXCEPT !.pc = "findTx"]]
    /\ UNCHANGED <<purchases, users, ureq, wreq, freq, raised, areq, board>>

\* a store call of the handler failed at step `at`
PurchaseUnhandled(r, at) ==
    \E res \in UnhandledOutcomes :
        preq' = [preq EXCEPT ![r] =
                    [@ EXCEPT !.pc = "unhandled", !.res = res, !.failedAt = at,
                              !.calls = @ \cup {at}]]

PurchaseFindTx(r) ==
    /\ preq[r].pc = "findTx"
    /\ \E out \in StoreOutcomes :
         IF out = "error" THEN PurchaseUnhandled(r, "findTx")
         ELSE LET existingTx == FindPurchaseByTx(purchases, preq[r].body.transactionId)
              IN  preq' = [preq EXCEPT ![r] =
                      IF existingTx # 0
                      THEN [@ EXCEPT !.pc = "done", !.calls = @ \cup {"findTx"},
                               !.res = ErrorJson(400, "Duplicate transaction detected")]
                      ELSE [@ EXCEPT !.pc = "saveTx", !.calls = @ \cup {"findTx"}]]
    /\ UNCHANGED <<purchases, users, ureq, wreq, freq, raised, areq, board>>

\* a document that keeps the code only as a flag of the credit, not as
\* submitted (used to test C26)
NewPurchaseNoCode(body) ==
    [walletAddress |-> body.walletAddress,
     usdSpent |-> body.usdSpent.n,
     tokensReceived |-> body.tokensReceived.n,
     transactionId |-> body.transactionId,
     referralCodeUsed |-> Null]

NewPurchase(body) ==
    [walletAddress |-> body.walletAddress,
     usdSpent |-> body.usdSpent.n,
     tokensReceived |-> body.tokensReceived.n,
     transactionId |-> body.transactionId,
     referralCodeUsed |-> IF TruthyStr(body.referralCode) THEN body.referralCode ELSE Null]

PurchaseRecordedMessage == MessageJson("Purchase recorded successfully")

PurchaseSaveTx(r) ==
    /\ preq[r].pc = "saveTx"
    /\ \E out \in StoreOutcomes :
         IF out = "error"
         THEN PurchaseUnhandled(r, "saveTx") /\ UNCHANGED purchases
         ELSE LET ins == InsertPurchase(purchases, NewPurchase(preq[r].body))
              IN  IF ~ins.ok
                  THEN PurchaseUnhandled(r, "saveTx") /\ UNCHANGED purchases
                  ELSE /\ purchases' = ins.coll
                       /\ preq' = [preq EXCEPT ![r] =
                            IF TruthyStr(preq[r].body.referralCode)
                            THEN [@ EXCEPT !.pc = "findRef", !.inserted = TRUE,
                                     !.calls = @ \cup {"saveTx"}]
                            ELSE [@ EXCEPT !.pc = "done", !.inserted = TRUE,
                                     !.calls = @ \cup {"saveTx"},
                                     !.res = PurchaseRecordedMessage]]
    /\ UNCHANGED <<users, ureq, wreq, freq, raised, areq, board>>

\* a lookup that refuses the submitter's own Account (used to test C27)
PurchaseFindRefNoSelf(r) ==
    /\ preq[r].pc = "findRef"
    /\ \E out \in StoreOutcomes :
         IF out = "error" THEN PurchaseUnhandled(r, "findRef")
         ELSE LET found == FindUserByCode(users, preq[r].body.referralCode)
                  refUser == IF found # 0 /\ users[found].walletAddress
                                                = preq[r].body.walletAddress
                             THEN 0 ELSE found
              IN  preq' = [preq EXCEPT ![r] =
                      IF refUser # 0
                      THEN [@ EXCEPT !.pc = "saveRef", !.refUser = refUser,
                               !.calls = @ \cup {"findRef"},
                               !.refRead = users[refUser].referralEarnings,
                               !.refEarnings = users[refUser].referralEarnings
                                               + Bonus(preq[r].body.usdSpent)]
                      ELSE [@ EXCEPT !.pc = "done", !.calls = @ \cup {"findRef"},
                               !.res = PurchaseRecordedMessage]]
    /\ UNCHANGED <<purchases, users, ureq, wreq, freq, raised, areq, board>>

PurchaseFindRef(r) ==
    /\ preq[r].pc = "findRef"
    /\ \E out \in StoreOutcomes :
         IF out = "error" THEN PurchaseUnhandled(r, "findRef")
         ELSE LET refUser == FindUserByCode(users, preq[r].body.referralCode)
              IN  preq' = [preq EXCEPT ![r] =
                      IF refUser # 0
                      THEN [@ EXCEPT !.pc = "saveRef", !.refUser = refUser,
                               !.calls = @ \cup {"findRef"},
                               !.refRead = users[refUser].referralEarnings,
                               !.refEarnings = users[refUser].referralEarnings
                                               + Bonus(preq[r].body.usdSpent)]
                      ELSE [@ EXCEPT !.pc = "done", !.calls = @ \cup {"findRef"},
                               !.res = PurchaseRecordedMessage]]
    /\ UNCHANGED <<purchases, users, ureq, wreq, freq, raised, areq, board>>

\* refUser.save() of a loaded document writes the modified path only:
\* $set referralEarnings to the value computed from the copy read earlier.
SaveEarnings(coll, refUser, refEarnings) ==
    [coll EXCEPT ![refUser].referralEarnings = refEarnings]

PurchaseSaveRef(r) ==
    /\ preq[r].pc = "saveRef"
    /\ \E out \in StoreOutcomes :
         IF out = "error"
         THEN PurchaseUnhandled(r, "saveRef") /\ UNCHANGED users
         ELSE /\ users' = SaveEarnings(users, preq[r].refUser, preq[r].refEarnings)
              /\ preq' = [preq EXCEPT ![r] =
                    [@ EXCEPT !.pc = "done", !.credited = TRUE,
                       !.calls = @ \cup {"saveRef"},
                       !.res = PurchaseRecordedMessage]]
    /\ UNCHANGED <<purchases, ureq, wreq, freq, raised, areq, board>>

(***************************************************************************)
(* GET /user/:walletAddress: find the account or create it with a random   *)
(* referral code.  The whole handler is inside try/catch.                  *)
(***************************************************************************)
RandomRange == 100000
\* a generator that rounds up instead of down (used to test C20)
RandomCodeCeil(n) == "REF" \o ToString(n + 1)

RandomCode(n) == "REF" \o ToString(n)

\* referralCode, referralEarnings: the handler's user document, and so the
\* body of its answer; found, n, cause (ghosts): whether findOne returned an
\* Account, the number drawn for a new one, and what made the handler fail
\* ("store": a rejected store call, "index": a unique index refused the insert)
IdleUser ==
    [pc |-> "idle", walletAddress |-> "", referralCode |-> "",
     referralEarnings |-> 0, res |-> NoResponse, created |-> FALSE,
     found |-> FALSE, n |-> 0, cause |-> "none"]

UserStart(u, walletAddress) ==
    /\ ureq[u].pc = "idle"
    /\ u > 1 => ureq[u - 1].pc # "idle"
    /\ ureq' = [ureq EXCEPT ![u] =
            [@ EXCEPT !.pc = "find", !.walletAddress = walletAddress]]
    /\ UNCHANGED <<purchases, users, preq, wreq, freq, raised, areq, board>>

\* n is Math.floor(Math.random() * 100000)
UserFind(u, n) ==
    /\ ureq[u].pc = "find"
    /\ 0 <= n /\ n < RandomRange
    /\ \E out \in StoreOutcomes :
         ureq' = [ureq EXCEPT ![u] =
            IF out = "error"
            THEN [@ EXCEPT !.pc = "done", !.cause = "store",
                     !.res = ErrorJson(500, "Failed to get user info")]
            ELSE IF FindUserByWallet(users, ureq[u].walletAddress) # 0
            THEN LET user == users[FindUserByWallet(users, ureq[u].walletAddress)]
                 IN  [@ EXCEPT !.pc = "done", !.res = DataJson, !.found = TRUE,
                         !.referralCode = user.referralCode,
                         !.referralEarnings = user.referralEarnings]
            ELSE [@ EXCEPT !.pc = "save", !.referralCode = RandomCode(n), !.n = n]]
    /\ UNCHANGED <<purchases, users, preq, wreq, freq, raised, areq, board>>

\* displayName, avatarUrl: the schema's defaults (models/User.js with the
\* profile fields)
NewUser(walletAddress, referralCode) ==
    [walletAddress |-> walletAddress, referralCode |-> referralCode,
     referralEarnings |-> 0, displayName |-> "", avatarUrl |-> ""]

UserSave(u) ==
    /\ ureq[u].pc = "save"
    /\ \E out \in StoreOutcomes :
         LET ins == InsertUser(users, NewUser(ureq[u].walletAddress, ureq[u].referralCode))
         IN  IF out = "error" \/ ~ins.ok
             THEN /\ ureq' = [ureq EXCEPT ![u] =
                        [@ EXCEPT !.pc = "done",
                           !.cause = IF out = "error" THEN "store" ELSE "index",
                           !.res = ErrorJson(500, "Failed to get user info")]]
                  /\ UNCHANGED users
             ELSE /\ users' = ins.coll
                  /\ ureq' = [ureq EXCEPT ![u] =
                        [@ EXCEPT !.pc = "done", !.res = DataJson, !.created = TRUE]]
    /\ UNCHANGED <<purchases, preq, wreq, freq, raised, areq, board>>

(***************************************************************************)
(* POST /update-profile (the server version with the profile endpoints):   *)
(* findOne by wallet, a new User with a random code when there is none,    *)
(* the trimmed displayName when the body has a string, then save.  save of *)
(* a document that was loaded writes its modified paths only.              *)
(***************************************************************************)
Str(s) == [def |-> TRUE, s |-> s]
NoStr == [def |-> FALSE, s |-> ""]

\* String.prototype.trim on the display names of the model
Trim(s) ==
    CASE s = " Al " -> "Al"
      [] s = "Al "  -> "Al"
      [] s = "  "   -> ""
      [] OTHER      -> s

\* user: the index of the document findOne returned, 0 for a new document
IdleProfile ==
    [pc |-> "idle", walletAddress |-> "", displayName |-> NoStr, user |-> 0,
     referralCode |-> "", res |-> NoResponse, created |-> FALSE]

ProfileFailed == ErrorJson(500, "Failed to update profile")

ProfileStart(f, body) ==
    /\ freq[f].pc = "idle"
    /\ f > 1 => freq[f - 1].pc # "idle"
    /\ freq' = [freq EXCEPT ![f] =
            IF body.walletAddress = ""
            THEN [@ EXCEPT !.pc = "done", !.walletAddress = body.walletAddress,
                     !.displayName = body.displayName,
                     !.res = ErrorJson(400, "Missing walletAddress")]
            ELSE [@ EXCEPT !.pc = "find", !.walletAddress = body.walletAddress,
                     !.displayName = body.displayName]]
    /\ UNCHANGED <<purchases, users, preq, ureq, wreq, raised, areq, board>>

ProfileFind(f, n) ==
    /\ freq[f].pc = "find"
    /\ 0 <= n /\ n < RandomRange
    /\ \E out \in StoreOutcomes :
         freq' = [freq EXCEPT ![f] =
            IF out = "error" THEN [@ EXCEPT !.pc = "done", !.res = ProfileFailed]
            ELSE IF FindUserByWallet(users, freq[f].walletAddress) # 0
            THEN [@ EXCEPT !.pc = "save",
                     !.user = FindUserByWallet(users, freq[f].walletAddress)]
            ELSE [@ EXCEPT !.pc = "save", !.user = 0,
                     !.referralCode = RandomCode(n)]]
    /\ UNCHANGED <<purchases, users, preq, ureq, wreq, raised, areq, board>>

ProfileSave(f) ==
    /\ freq[f].pc = "save"
    /\ \E out \in StoreOutcomes :
         LET q == freq[f]
             name == IF q.displayName.def THEN Trim(q.displayName.s) ELSE ""
             ins == InsertUser(users,
                       [NewUser(q.walletAddress, q.referralCode)
                            EXCEPT !.displayName = name])
         IN  IF out = "error" \/ (q.user = 0 /\ ~ins.ok)
             THEN /\ freq' = [freq EXCEPT ![f] =
                        [q EXCEPT !.pc = "done", !.res = ProfileFailed]]
                  /\ UNCHANGED users
             ELSE /\ users' = IF q.user = 0 THEN ins.coll
                              ELSE IF q.displayName.def
                                   THEN [users EXCEPT ![q.user].displayName = name]
                                   ELSE users
                  /\ freq' = [freq EXCEPT ![f] =
                        [q EXCEPT !.pc = "done",
                                  !.res = MessageJson("Profile updated"),
                                  !.created = (q.user = 0)]]
    /\ UNCHANGED <<purchases, preq, ureq, wreq, raised, areq, board>>

(***************************************************************************)
(* POST /upload-avatar: the upload middleware (which fails for a file that *)
(* is too large), the body check, findOne by wallet (404 when there is no  *)
(* Account: this endpoint creates none), then avatarUrl and save.          *)
(***************************************************************************)
\* file: the URL of the stored upload, or none; tooLarge: the middleware
\* refused the upload
AvatarBody(walletAddress, file, tooLarge) ==
    [walletAddress |-> walletAddress, file |-> file, tooLarge |-> tooLarge]

IdleAvatar ==
    [pc |-> "idle", body |-> AvatarBody("", NoStr, FALSE), user |-> 0,
     res |-> NoResponse]

AvatarFailed == ErrorJson(500, "Avatar upload failed")

AvatarStart(a, body) ==
    /\ areq[a].pc = "idle"
    /\ a > 1 => areq[a - 1].pc # "idle"
    /\ areq' = [areq EXCEPT ![a] =
            IF body.tooLarge
            THEN [@ EXCEPT !.pc = "done", !.body = body,
                     !.res = ErrorJson(400, "File size too large. Please resize your image to under 500KB.")]
            ELSE IF ~body.file.def \/ body.walletAddress = ""
            THEN [@ EXCEPT !.pc = "done", !.body = body,
                     !.res = ErrorJson(400, "Missing wallet address or image.")]
            ELSE [@ EXCEPT !.pc = "find", !.body = body]]
    /\ UNCHANGED <<purchases, users, preq, ureq, wreq, freq, raised, board>>

AvatarFind(a) ==
    /\ areq[a].pc = "find"
    /\ \E out \in StoreOutcomes :
         areq' = [areq EXCEPT ![a] =
            IF out = "error" THEN [@ EXCEPT !.pc = "done", !.res = AvatarFailed]
            ELSE IF FindUserByWallet(users, areq[a].body.walletAddress) = 0
            THEN [@ EXCEPT !.pc = "done", !.res = ErrorJson(404, "User not found")]
            ELSE [@ EXCEPT !.pc = "save",
                     !.user = FindUserByWallet(users, areq[a].body.walletAddress)]]
    /\ UNCHANGED <<purchases, users, preq, ureq, wreq, freq, raised, board>>

\* a save that writes the whole document from the schema's defaults (used to
\* test C25)
SaveAvatarWholeDocument(coll, user, avatarUrl) ==
    [coll EXCEPT ![user] =
        [NewUser(coll[user].walletAddress, coll[user].referralCode)
            EXCEPT !.avatarUrl = avatarUrl]]

\* user.save() of the loaded document: $set avatarUrl only
SaveAvatar(coll, user, avatarUrl) == [coll EXCEPT ![user].avatarUrl = avatarUrl]

AvatarSave(a) ==
    /\ areq[a].pc = "save"
    /\ \E out \in StoreOutcomes :
         IF out = "error"
         THEN /\ areq' = [areq EXCEPT ![a] =
                    [@ EXCEPT !.pc = "done", !.res = AvatarFailed]]
              /\ UNCHANGED users
         ELSE /\ users' = SaveAvatar(users, areq[a].user, areq[a].body.file.s)
              /\ areq' = [areq EXCEPT ![a] =
                    [@ EXCEPT !.pc = "done",
                       !.res = MessageJson("Avatar uploaded successfully")]]
    /\ UNCHANGED <<purchases, preq, ureq, wreq, freq, raised, board>>

(***************************************************************************)
(* POST /webhook/solana-inbound.  A batch is a list of transactions, each  *)
(* with a signature, a signers list (or none) and a list of instructions;  *)
(* an instruction has parsed.info or not, and parsed.info holds the        *)
(* destination and the amount in units of 10^-6 USD.  The amounts of the   *)
(* model are whole USD, so the division by 1e6 is exact; tokensReceived    *)
(* (usdSpent / 0.00851) is kept in whole tokens, rounded down.             *)
(***************************************************************************)
UnitsPerUsd == 1000000
TokenPriceNum == 851
TokenPriceDen == 100000

Instruction(parsed, destination, amount) ==
    [parsed |-> parsed, destination |-> destination, amount |-> amount]
Transaction(signature, signers, instructions) ==
    [signature |-> signature, signers |-> signers, instructions |-> instructions]
Signers(keys) == [def |-> TRUE, keys |-> keys]
NoSigners == [def |-> FALSE, keys |-> <<>>]

\* i, j: the instruction the handler is at (or failed at); cause (ghost): what
\* threw, "signers" (tx.signers[0] without a signers list), "amount" (the
\* Number cast of a NaN usdSpent) or "store" (a rejected store operation)
IdleWebhook ==
    [pc |-> "idle", batch |-> <<>>, i |-> 0, j |-> 0, res |-> NoResponse,
     inserted |-> {}, cause |-> "none"]

\* the handler without its destination test (used to test C12)
RECURSIVE ScanAnyDestination(_, _, _)
ScanAnyDestination(batch, i, j) ==
    IF i > Len(batch) THEN [kind |-> "end", i |-> i, j |-> j]
    ELSE IF j > Len(batch[i].instructions)
         THEN ScanAnyDestination(batch, i + 1, 1)
    ELSE IF batch[i].instructions[j].parsed
         THEN IF ~batch[i].signers.def
              THEN [kind |-> "throw", i |-> i, j |-> j]
              ELSE [kind |-> "await", i |-> i, j |-> j]
         ELSE ScanAnyDestination(batch, i, j + 1)

\* a handler that skips the payments the chain verifier does not confirm
\* for the first signer (used to test C23)
RECURSIVE ScanVerified(_, _, _)
ScanVerified(batch, i, j) ==
    IF i > Len(batch) THEN [kind |-> "end", i |-> i, j |-> j]
    ELSE IF j > Len(batch[i].instructions) THEN ScanVerified(batch, i + 1, 1)
    ELSE LET inst == batch[i].instructions[j]
         IN  IF inst.parsed /\ inst.destination = PRESALE_WALLET
             THEN IF ~batch[i].signers.def
                  THEN [kind |-> "throw", i |-> i, j |-> j]
                  ELSE IF Verdict(Ledger(batch[i].signature),
                                  batch[i].signers.keys[1]) = "Confirmed"
                  THEN [kind |-> "await", i |-> i, j |-> j]
                  ELSE ScanVerified(batch, i, j + 1)
             ELSE ScanVerified(batch, i, j + 1)

\* The two for-loops from instruction j of transaction i up to the next
\* await: the next instruction that pays the presale wallet ("await", with
\* tx.signers[0] read on the way, which throws without a signers list), or
\* the end of the batch.
RECURSIVE Scan(_, _, _)
Scan(batch, i, j) ==
    IF i > Len(batch) THEN [kind |-> "end", i |-> i, j |-> j]
    ELSE IF j > Len(batch[i].instructions) THEN Scan(batch, i + 1, 1)
    ELSE LET inst == batch[i].instructions[j]
         IN  IF inst.parsed /\ inst.destination = PRESALE_WALLET
             THEN IF ~batch[i].signers.def
                  THEN [kind |-> "throw", i |-> i, j |-> j]
                  ELSE [kind |-> "await", i |-> i, j |-> j]
             ELSE Scan(batch, i, j + 1)

WebhookProcessed == [status |-> 200, kind |-> "message", text |-> "Webhook processed"]
WebhookFailed == ErrorJson(500, "Internal Server Error")

\* the handler's state after the synchronous run that Scan describes
WebhookContinue(q, at) ==
    IF at.kind = "end" THEN [q EXCEPT !.pc = "done", !.res = WebhookProcessed]
    ELSE IF at.kind = "throw"
         THEN [q EXCEPT !.pc = "done", !.res = WebhookFailed,
                        !.i = at.i, !.j = at.j, !.cause = "signers"]
    ELSE [q EXCEPT !.pc = "find", !.i = at.i, !.j = at.j]

\* a document that names the last signer as the payer (used to test C30)
WebhookPurchaseLastSigner(tx, inst) ==
    LET usdSpent == ParseFloat(inst.amount).n \div UnitsPerUsd
    IN  [walletAddress |-> IF Len(tx.signers.keys) > 0
                           THEN tx.signers.keys[Len(tx.signers.keys)] ELSE Null,
         usdSpent |-> usdSpent,
         tokensReceived |-> (usdSpent * TokenPriceDen) \div TokenPriceNum,
         transactionId |-> tx.signature,
         referralCodeUsed |-> Null]

WebhookPurchase(tx, inst) ==
    LET usdSpent == ParseFloat(inst.amount).n \div UnitsPerUsd
    IN  [walletAddress |-> IF Len(tx.signers.keys) > 0 THEN tx.signers.keys[1] ELSE Null,
         usdSpent |-> usdSpent,
         tokensReceived |-> (usdSpent * TokenPriceDen) \div TokenPriceNum,
         transactionId |-> tx.signature,
         referralCodeUsed |-> Null]

WebhookStart(w, batch) ==
    /\ wreq[w].pc = "idle"
    /\ w > 1 => wreq[w - 1].pc # "idle"
    /\ wreq' = [wreq EXCEPT ![w] =
            WebhookContinue([@ EXCEPT !.batch = batch], Scan(batch, 1, 1))]
    /\ UNCHANGED <<purchases, users, preq, ureq, freq, raised, areq, board>>

\* a handler that saves every payment without the duplicates check (used to
\* test C29)
WebhookFindNoCheck(w) ==
    /\ wreq[w].pc = "find"
    /\ \E out \in StoreOutcomes :
         LET q == wreq[w]
         IN  wreq' = [wreq EXCEPT ![w] =
                 IF out = "error"
                 THEN [q EXCEPT !.pc = "done", !.res = WebhookFailed,
                                !.cause = "store"]
                 ELSE [q EXCEPT !.pc = "save"]]
    /\ UNCHANGED <<purchases, users, preq, ureq, freq, raised, areq, board>>

WebhookFind(w) ==
    /\ wreq[w].pc = "find"
    /\ \E out \in StoreOutcomes :
         LET q == wreq[w]
             existingTx == FindPurchaseByTx(purchases, q.batch[q.i].signature)
         IN  wreq' = [wreq EXCEPT ![w] =
                 IF out = "error"
                 THEN [q EXCEPT !.pc = "done", !.res = WebhookFailed,
                                !.cause = "store"]
                 ELSE IF existingTx = 0 THEN [q EXCEPT !.pc = "save"]
                 ELSE WebhookContinue(q, Scan(q.batch, q.i, q.j + 1))]
    /\ UNCHANGED <<purchases, users, preq, ureq, freq, raised, areq, board>>

\* newPurchase.save(): a usdSpent of NaN (parseFloat of a missing amount)
\* fails the Number cast, and save rejects before anything is written.
WebhookSave(w) ==
    /\ wreq[w].pc = "save"
    /\ \E out \in StoreOutcomes :
         LET q == wreq[w]
             tx == q.batch[q.i]
             inst == tx.instructions[q.j]
             ins == InsertPurchase(purchases, WebhookPurchase(tx, inst))
         IN  IF out = "error" \/ ~ParseFloat(inst.amount).def \/ ~ins.ok
             THEN /\ wreq' = [wreq EXCEPT ![w] =
                        [q EXCEPT !.pc = "done", !.res = WebhookFailed,
                                  !.cause = IF ParseFloat(inst.amount).def
                                            THEN "store" ELSE "amount"]]
                  /\ UNCHANGED purchases
             ELSE /\ purchases' = ins.coll
                  /\ wreq' = [wreq EXCEPT ![w] =
                        WebhookContinue([q EXCEPT !.inserted = @ \cup {<<q.i, q.j>>}],
                                        Scan(q.batch, q.i, q.j + 1))]
    /\ UNCHANGED <<users, preq, ureq, freq, raised, areq, board>>

(***************************************************************************)
(* GET /raised-amount: the $group / $sum aggregation over the collection   *)
(* (no group, and so an empty result, for an empty collection), 0 for an   *)
(* empty result.  The handler has one await, so a request is one step: the *)
(* aggregation reads the collection and the answer carries what it read.   *)
(***************************************************************************)
RECURSIVE SumUsd(_, _)
SumUsd(coll, n) == IF n = 0 THEN 0 ELSE SumUsd(coll, n - 1) + coll[n].usdSpent

RECURSIVE SumTokens(_, _)
SumTokens(coll, n) ==
    IF n = 0 THEN 0 ELSE SumTokens(coll, n - 1) + coll[n].tokensReceived

\* an aggregation that sums the wrong field (used to test C14)
AggregateTokens(coll) ==
    IF Len(coll) = 0 THEN <<>> ELSE <<[totalUSD |-> SumTokens(coll, Len(coll))]>>

Aggregate(coll) ==
    IF Len(coll) = 0 THEN <<>> ELSE <<[totalUSD |-> SumUsd(coll, Len(coll))]>>

RaisedAmount(coll) ==
    LET totalRaised == Aggregate(coll)
    IN  IF Len(totalRaised) > 0 THEN totalRaised[1].totalUSD ELSE 0

\* turn (ghost) flips at every answer, so that two answers in a row differ
NoRaised == [res |-> NoResponse, totalUSD |-> 0, turn |-> 0]

RaisedGet ==
    /\ \E out \in StoreOutcomes :
         raised' = IF out = "error"
                   THEN [res |-> ErrorJson(500, "Failed to fetch raised amount"),
                         totalUSD |-> 0, turn |-> 1 - raised.turn]
                   ELSE [res |-> DataJson, totalUSD |-> RaisedAmount(purchases),
                         turn |-> 1 - raised.turn]
    /\ UNCHANGED <<purchases, users, preq, ureq, wreq, freq, areq, board>>

(***************************************************************************)
(* GET /leaderboard: User.find().sort({referralEarnings: -1}).limit(1000). *)
(* The order of Accounts with equal earnings is not determined by the      *)
(* query, so the answer is any of the descending orders.  One await: a     *)
(* request is one step.                                                    *)
(***************************************************************************)
LeaderboardLimit == 1000

Orders(n) == { p \in [1..n -> 1..n] : \A a, b \in 1..n : a # b => p[a] # p[b] }

\* a query that sorts ascending (used to test C22)
SortAscending(coll) ==
    { [k \in 1..Len(coll) |-> coll[p[k]]] :
        p \in { o \in Orders(Len(coll)) :
                  \A k \in 1..(Len(coll) - 1) :
                      coll[o[k]].referralEarnings <= coll[o[k + 1]].referralEarnings } }

SortDescending(coll) ==
    { [k \in 1..Len(coll) |-> coll[p[k]]] :
        p \in { o \in Orders(Len(coll)) :
                  \A k \in 1..(Len(coll) - 1) :
                      coll[o[k]].referralEarnings >= coll[o[k + 1]].referralEarnings } }

Limit(seq, n) == [k \in 1..(IF Len(seq) < n THEN Len(seq) ELSE n) |-> seq[k]]

NoBoard == [res |-> NoResponse, leaderboard |-> <<>>, turn |-> 0]

BoardGet ==
    /\ \E out \in StoreOutcomes, sorted \in SortDescending(users) :
         board' = IF out = "error"
                  THEN [res |-> ErrorJson(500, "Failed to load leaderboard"),
                        leaderboard |-> <<>>, turn |-> 1 - board.turn]
                  ELSE [res |-> DataJson,
                        leaderboard |-> Limit(sorted, LeaderboardLimit),
                        turn |-> 1 - board.turn]
    /\ UNCHANGED <<purchases, users, preq, ureq, wreq, freq, raised, areq>>

Init ==
    /\ purchases = <<>>
    /\ users = <<>>
    /\ preq = [r \in PurchaseIds |-> IdlePurchase]
    /\ ureq = [u \in UserIds |-> IdleUser]
    /\ wreq = [w \in WebhookIds |-> IdleWebhook]
    /\ freq = [f \in ProfileIds |-> IdleProfile]
    /\ raised = NoRaised
    /\ areq = [a \in AvatarIds |-> IdleAvatar]
    /\ board = NoBoard

(***************************************************************************)
(* The requests served.                                                    *)
(***************************************************************************)
Pay(amount) == Instruction(TRUE, PRESALE_WALLET, Num(amount * UnitsPerUsd))

\* a valid body, and the bodies that differ from it in one field
BaseBody ==
    [walletAddress |-> "w1", usdSpent |-> Num(100), tokensReceived |-> Num(1000),
     transactionId |-> "t1", referralCode |-> "REF7"]

PurchaseBodies ==
    { [BaseBody EXCEPT !.transactionId = t] : t \in {"t1", "t2"} }
    \cup { [BaseBody EXCEPT !.usdSpent = u] : u \in {Num(20)} }
    \cup { [BaseBody EXCEPT !.referralCode = c] : c \in {"", "REF8"} }
UserWallets == {"w1"}
RandomDraws == {7}
WebhookBatches == { <<Transaction("t1", Signers(<<"w1">>), <<Pay(100)>>)>> }

PurchaseSteps(bodies) ==
    \/ \E r \in PurchaseIds, body \in bodies : PurchaseStart(r, body)
    \/ \E r \in PurchaseIds : PurchaseValidate(r)
    \/ \E r \in PurchaseIds : PurchaseFindTx(r)
    \/ \E r \in PurchaseIds : PurchaseSaveTx(r)
    \/ \E r \in PurchaseIds : PurchaseFindRef(r)
    \/ \E r \in PurchaseIds : PurchaseSaveRef(r)

UserSteps ==
    \/ \E u \in UserIds, walletAddress \in UserWallets : UserStart(u, walletAddress)
    \/ \E u \in UserIds, n \in RandomDraws : UserFind(u, n)
    \/ \E u \in UserIds : UserSave(u)

WebhookSteps ==
    \/ \E w \in WebhookIds, batch \in WebhookBatches : WebhookStart(w, batch)
    \/ \E w \in WebhookIds : WebhookFind(w)
    \/ \E w \in WebhookIds : WebhookSave(w)

Next == PurchaseSteps(PurchaseBodies) \/ UserSteps \/ WebhookSteps

Spec == Init /\ [][Next]_vars

(***************************************************************************)
(* The direct path alone, over request bodies with absent, zero and        *)
(* negative fields, a wallet that does not sign the transaction, and       *)
(* signatures the ledger rejects.                                          *)
(***************************************************************************)
DirectBodies ==
    { [BaseBody EXCEPT !.walletAddress = w] : w \in {"", "w2", "key?"} }
    \cup { [BaseBody EXCEPT !.usdSpent = u] : u \in {Undefined, Num(-20), Num(0)} }
    \cup { [BaseBody EXCEPT !.tokensReceived = k] :
                k \in {Undefined, Num(-1000), Num(0)} }
    \cup { [BaseBody EXCEPT !.transactionId = t] : t \in {"", "t1", "t3", "t4"} }
    \cup { [BaseBody EXCEPT !.referralCode = c] : c \in {"", "REF8"} }

NextDirect == PurchaseSteps(DirectBodies) \/ UserSteps

SpecDirect == Init /\ [][NextDirect]_vars

(***************************************************************************)
(* The direct path over narrower families of bodies: one per question.     *)
(***************************************************************************)
\* the verifier's cases: signer mismatch, a string that is no public key, a
\* transaction without the presale wallet, a signature unknown to the ledger
VerifyBodies ==
    { [BaseBody EXCEPT !.walletAddress = w] : w \in {"w1", "w2", "key?"} }
    \cup { [BaseBody EXCEPT !.transactionId = t] : t \in {"t3", "t4"} }

SpecVerify == Init /\ [][PurchaseSteps(VerifyBodies) \/ UserSteps]_vars

\* two amounts credited to the same referral code
BonusBodies == { [BaseBody EXCEPT !.usdSpent = u] : u \in {Num(100), Num(20)} }

SpecBonus == Init /\ [][PurchaseSteps(BonusBodies) \/ UserSteps]_vars

\* w1 buys with REF7, the code GET /user gives w1's own Account
SpecSelf == Init /\ [][PurchaseSteps({BaseBody}) \/ UserSteps]_vars

\* a code that resolves once the account exists, and one that never does
ReferralBodies == { [BaseBody EXCEPT !.referralCode = c] : c \in {"REF7", "REF8"} }

SpecReferral == Init /\ [][PurchaseSteps(ReferralBodies) \/ UserSteps]_vars

\* resubmissions of t1: the same body, another wallet, a zero amount, no code
RepeatBodies ==
    { BaseBody,
      [BaseBody EXCEPT !.walletAddress = "w2"],
      [BaseBody EXCEPT !.usdSpent = Num(0)],
      [BaseBody EXCEPT !.referralCode = ""] }

SpecRepeat == Init /\ [][PurchaseSteps(RepeatBodies) \/ UserSteps]_vars

\* webhook batches of one or two transactions: payments to the presale
\* wallet, transfers to another destination (with and without a signers
\* list or an amount), unparsed instructions, and payments that make the
\* handler throw (no signers list, no amount)
Transfer(destination, amount) == Instruction(TRUE, destination, amount)
Unparsed == Instruction(FALSE, Null, Undefined)
WebhookRecords ==
    { Transaction("t1", Signers(<<"w1">>), <<Pay(100)>>),
      Transaction("t2", Signers(<<"w2">>), <<Transfer("w3", Num(40 * UnitsPerUsd)), Pay(20)>>),
      Transaction("t3", Signers(<<"w2">>), <<Transfer("w3", Num(100 * UnitsPerUsd))>>),
      Transaction("t4", NoSigners, <<Unparsed, Transfer("w1", Undefined)>>),
      Transaction("t5", NoSigners, <<Pay(100)>>),
      Transaction("t6", Signers(<<"w1">>), <<Transfer(PRESALE_WALLET, Undefined)>>) }
BatchesOfRecords ==
    { <<a>> : a \in WebhookRecords }
    \cup { <<a, b>> : a, b \in WebhookRecords }

WebhookStepsOf(batches) ==
    \/ \E w \in WebhookIds, batch \in batches : WebhookStart(w, batch)
    \/ \E w \in WebhookIds : WebhookFind(w)
    \/ \E w \in WebhookIds : WebhookSave(w)

SpecWebhook == Init /\ [][WebhookStepsOf(BatchesOfRecords)]_vars

\* webhook records with two signers, with an empty signers list, and with the
\* payment after a transfer elsewhere
SignedRecords ==
    { Transaction("t1", Signers(<<"w1", "w2">>), <<Pay(100)>>),
      Transaction("t2", Signers(<<"w2", "w1">>), <<Pay(20)>>),
      Transaction("t3", Signers(<<>>), <<Pay(40)>>),
      Transaction("t4", Signers(<<"w3">>),
                  <<Transfer("w1", Num(100 * UnitsPerUsd)), Pay(60)>>) }
SignedBatches ==
    { <<a>> : a \in SignedRecords } \cup { <<a, b>> : a, b \in SignedRecords }

SpecDelivered == Init /\ [][WebhookStepsOf(SignedBatches)]_vars

\* POST /purchase up to the insert of the Purchase, for bodies without a
\* referral code
LedgerSteps(bodies) ==
    \/ \E r \in PurchaseIds, body \in bodies : PurchaseStart(r, body)
    \/ \E r \in PurchaseIds : PurchaseValidate(r)
    \/ \E r \in PurchaseIds : PurchaseFindTx(r)
    \/ \E r \in PurchaseIds : PurchaseSaveTx(r)

\* one transaction reported on both paths: by the webhook, and by direct
\* submissions without a referral code
SpecBothPaths ==
    Init /\ [][LedgerSteps({[BaseBody EXCEPT !.referralCode = ""]})
                  \/ WebhookSteps]_vars

\* the transaction t2 (signed by w1 on the chain) claimed by w2 on both
\* paths, next to t1 claimed by w1
UnverifiedBodies ==
    { [BaseBody EXCEPT !.referralCode = ""],
      [BaseBody EXCEPT !.referralCode = "", !.walletAddress = "w2",
                       !.transactionId = "t2"] }
UnverifiedBatches ==
    { <<Transaction("t2", Signers(<<"w2">>), <<Pay(20)>>)>>,
      <<Transaction("t1", Signers(<<"w1">>), <<Pay(100)>>)>> }

SpecUnverified ==
    Init /\ [][LedgerSteps(UnverifiedBodies) \/ WebhookStepsOf(UnverifiedBatches)]_vars

\* lazy creation of Accounts by GET /user and POST /update-profile, for two
\* wallets and two draws of the code generator (so that two wallets can draw
\* the same code)
AccountWallets == {"w1", "w2"}
AccountDraws == {7, 8}
ProfileBodies ==
    { [walletAddress |-> "", displayName |-> NoStr],
      [walletAddress |-> "w1", displayName |-> Str(" Al ")],
      [walletAddress |-> "w2", displayName |-> NoStr] }

UserStepsOf(wallets, draws) ==
    \/ \E u \in UserIds, walletAddress \in wallets : UserStart(u, walletAddress)
    \/ \E u \in UserIds, n \in draws : UserFind(u, n)
    \/ \E u \in UserIds : UserSave(u)

ProfileStepsOf(bodies, draws) ==
    \/ \E f \in ProfileIds, body \in bodies : ProfileStart(f, body)
    \/ \E f \in ProfileIds, n \in draws : ProfileFind(f, n)
    \/ \E f \in ProfileIds : ProfileSave(f)

SpecAccounts ==
    Init /\ [][UserStepsOf(AccountWallets, AccountDraws)
                  \/ ProfileStepsOf(ProfileBodies, AccountDraws)]_vars

\* two Accounts (w1 with REF7 from update-profile, then w2 with REF8 from
\* GET /user), purchases that credit the second, and the leaderboard
\* (the writers one request at a time and with every store and chain call
\* served: their races and failures are the subject of other specifications)
InFlight(q) == q.pc \notin {"idle", "done", "unhandled"}

OneWriterAtATime ==
    Cardinality({ r \in PurchaseIds : InFlight(preq'[r]) })
      + Cardinality({ u \in UserIds : InFlight(ureq'[u]) })
      + Cardinality({ f \in ProfileIds : InFlight(freq'[f]) }) <= 1

WritersServed ==
    /\ \A r \in PurchaseIds :
           /\ preq'[r].failedAt = "none"
           /\ preq'[r].txInfo.kind \notin {"throw", "malformed"}
    /\ \A u \in UserIds : ureq'[u].cause # "store"
    /\ \A f \in ProfileIds : freq'[f].res # ProfileFailed

\* step A of a writer, taken when it leaves no second writer in flight and
\* no call failed
Calm(A) == A /\ WritersServed /\ OneWriterAtATime

CalmPurchaseSteps(bodies) ==
    \/ \E r \in PurchaseIds, body \in bodies : Calm(PurchaseStart(r, body))
    \/ \E r \in PurchaseIds : Calm(PurchaseValidate(r))
    \/ \E r \in PurchaseIds : Calm(PurchaseFindTx(r))
    \/ \E r \in PurchaseIds : Calm(PurchaseSaveTx(r))
    \/ \E r \in PurchaseIds : Calm(PurchaseFindRef(r))
    \/ \E r \in PurchaseIds : Calm(PurchaseSaveRef(r))

CalmUserSteps(wallets, draws) ==
    \/ \E u \in UserIds, walletAddress \in wallets : Calm(UserStart(u, walletAddress))
    \/ \E u \in UserIds, n \in draws : Calm(UserFind(u, n))
    \/ \E u \in UserIds : Calm(UserSave(u))

CalmProfileSteps(bodies, draws) ==
    \/ \E f \in ProfileIds, body \in bodies : Calm(ProfileStart(f, body))
    \/ \E f \in ProfileIds, n \in draws : Calm(ProfileFind(f, n))
    \/ \E f \in ProfileIds : Calm(ProfileSave(f))

SpecBoard ==
    Init /\ [][CalmProfileSteps({[walletAddress |-> "w1", displayName |-> NoStr]}, {7})
                  \/ CalmUserSteps({"w2"}, {8})
                  \/ CalmPurchaseSteps({[BaseBody EXCEPT !.referralCode = "REF8"]})
                  \/ BoardGet]_vars

\* webhook batches that name a transaction more than once: two payments in
\* one record (after a transfer elsewhere, after a payment without amount),
\* and the same signature in two records; handled one batch at a time
RepeatedRecords ==
    { Transaction("t1", Signers(<<"w1">>), <<Pay(100), Pay(20)>>),
      Transaction("t1", Signers(<<"w1">>), <<Pay(40)>>),
      Transaction("t2", Signers(<<"w2">>),
                  <<Transfer("w3", Num(100 * UnitsPerUsd)), Pay(20), Pay(40)>>),
      Transaction("t2", Signers(<<"w2">>),
                  <<Transfer(PRESALE_WALLET, Undefined), Pay(20)>>) }
RepeatedBatches ==
    { <<a>> : a \in RepeatedRecords } \cup { <<a, b>> : a, b \in RepeatedRecords }

OneBatchAtATime == Cardinality({ w \in WebhookIds : InFlight(wreq'[w]) }) <= 1

SpecBatch ==
    Init /\ [][\/ \E w \in WebhookIds, batch \in RepeatedBatches :
                      WebhookStart(w, batch) /\ OneBatchAtATime
               \/ \E w \in WebhookIds : WebhookFind(w)
               \/ \E w \in WebhookIds : WebhookSave(w)]_vars

\* every handler that touches an Account, around the credits of REF7 to
\* w1's Account: at most one purchase and at most one other request in
\* flight at a time, every call of the purchase, user and profile handlers
\* served
AtMostTwoInFlight ==
    /\ Cardinality({ r \in PurchaseIds : InFlight(preq'[r]) }) <= 1
    /\ Cardinality({ u \in UserIds : InFlight(ureq'[u]) })
         + Cardinality({ f \in ProfileIds : InFlight(freq'[f]) })
         + Cardinality({ a \in AvatarIds : InFlight(areq'[a]) })
         + Cardinality({ w \in WebhookIds : InFlight(wreq'[w]) }) <= 1

Paired(A) == A /\ WritersServed /\ AtMostTwoInFlight

\* a credit is about to be written and the purchase is the only request in
\* flight: the moment a read endpoint is called in this scenario
CreditPendingAlone ==
    /\ \E r \in PurchaseIds : preq[r].pc = "saveRef"
    /\ \A u \in UserIds : ~InFlight(ureq[u])
    /\ \A f \in ProfileIds : ~InFlight(freq[f])
    /\ \A a \in AvatarIds : ~InFlight(areq[a])
    /\ \A w \in WebhookIds : ~InFlight(wreq[w])

SpecEarnings ==
    Init /\ [][\/ \E r \in PurchaseIds : Paired(PurchaseStart(r, BaseBody))
               \/ \E r \in PurchaseIds : Paired(PurchaseValidate(r))
               \/ \E r \in PurchaseIds : Paired(PurchaseFindTx(r))
               \/ \E r \in PurchaseIds : Paired(PurchaseSaveTx(r))
               \/ \E r \in PurchaseIds : Paired(PurchaseFindRef(r))
               \/ \E r \in PurchaseIds : Paired(PurchaseSaveRef(r))
               \/ \E u \in UserIds : Paired(UserStart(u, "w1"))
               \/ \E u \in UserIds : Paired(UserFind(u, 7))
               \/ \E u \in UserIds : Paired(UserSave(u))
               \/ \E f \in ProfileIds :
                      Paired(ProfileStart(f, [walletAddress |-> "w1",
                                              displayName |-> Str(" Al ")]))
               \/ \E f \in ProfileIds : Paired(ProfileFind(f, 8))
               \/ \E f \in ProfileIds : Paired(ProfileSave(f))
               \/ \E a \in AvatarIds :
                      Paired(AvatarStart(a, AvatarBody("w1", Str("url"), FALSE)))
               \/ \E a \in AvatarIds : Paired(AvatarFind(a))
               \/ \E a \in AvatarIds : Paired(AvatarSave(a))
               \/ \E w \in WebhookIds, batch \in WebhookBatches :
                      Paired(WebhookStart(w, batch))
               \/ \E w \in WebhookIds : Paired(WebhookFind(w))
               \/ \E w \in WebhookIds : Paired(WebhookSave(w))
               \/ Paired(RaisedGet /\ CreditPendingAlone)
               ]_vars

\* step A, taken when it leaves at most one purchase and one other request
\* in flight
Overlapping(A) == A /\ AtMostTwoInFlight

\* the two ingestion paths on transaction t1: the webhook delivery of t1 and
\* w1's direct submission of t1 with the code REF7 that GET /user gives w1's
\* Account, in either order and overlapping
SpecWebhookFirst ==
    Init /\ [][\/ \E r \in PurchaseIds : Overlapping(PurchaseStart(r, BaseBody))
               \/ \E r \in PurchaseIds : Overlapping(PurchaseValidate(r))
               \/ \E r \in PurchaseIds : Overlapping(PurchaseFindTx(r))
               \/ \E r \in PurchaseIds : Overlapping(PurchaseSaveTx(r))
               \/ \E r \in PurchaseIds : Overlapping(PurchaseFindRef(r))
               \/ \E r \in PurchaseIds : Overlapping(PurchaseSaveRef(r))
               \/ \E u \in UserIds : Overlapping(UserStart(u, "w1"))
               \/ \E u \in UserIds : Overlapping(UserFind(u, 7))
               \/ \E u \in UserIds : Overlapping(UserSave(u))
               \/ \E w \in WebhookIds, batch \in WebhookBatches :
                      Overlapping(WebhookStart(w, batch))
               \/ \E w \in WebhookIds : Overlapping(WebhookFind(w))
               \/ \E w \in WebhookIds : Overlapping(WebhookSave(w))
               ]_vars

\* every claimed wallet against every signature of the chain
VerifierBodies ==
    { [BaseBody EXCEPT !.referralCode = "", !.walletAddress = w,
                       !.transactionId = t] :
        w \in PublicKeys \cup {"key?"}, t \in TxIds }

SpecVerifier == Init /\ [][LedgerSteps(VerifierBodies)]_vars

\* the ledger filled by both paths, and read by GET /raised-amount
RaisedBodies ==
    { [BaseBody EXCEPT !.referralCode = "", !.usdSpent = Num(20),
                       !.transactionId = "t2"] }

SpecRaised ==
    Init /\ [][LedgerSteps(RaisedBodies) \/ WebhookStepsOf(WebhookBatches)
                  \/ RaisedGet]_vars

(***************************************************************************)
(* Properties.                                                             *)
(***************************************************************************)
Answered(q) == q.pc = "done"
\* request r takes the step
Steps(r) == preq'[r] # preq[r]

\* C1: the Purchase ledger never holds two Purchases with the same
\* transactionId, whatever the interleaving of the direct handlers and the
\* webhook handlers.
C1_UniqueTransactionId ==
    \A i, j \in 1..Len(purchases) :
        i # j => purchases[i].transactionId # purchases[j].transactionId

SameConfirmedTx(T) ==
    { r \in PurchaseIds : /\ preq[r].body.transactionId = T
                          /\ preq[r].verdict = "Confirmed" }

\* C2: of N >= 2 direct submissions of the same transactionId that passed
\* validation and verification and have all been answered, exactly one was
\* answered Recorded and every other one Duplicate.
C2_OneRecordedRestDuplicate ==
    \A T \in TxIds :
        LET S == SameConfirmedTx(T)
        IN  (Cardinality(S) >= 2 /\ \A r \in S : Answered(preq[r]))
            => /\ Cardinality({ r \in S : Recorded(preq[r]) }) = 1
               /\ \A r \in S : Recorded(preq[r]) \/ Duplicate(preq[r])

RECURSIVE SumBonus(_)
SumBonus(S) ==
    IF S = {} THEN 0
    ELSE LET r == CHOOSE x \in S : TRUE
         IN  (5 * preq[r].body.usdSpent.n) \div 100 + SumBonus(S \ {r})

Creditors(i) == { r \in PurchaseIds : preq[r].credited /\ preq[r].refUser = i }

\* C3: when direct submissions with distinct transactionIds credit the same
\* Account and all of them have finished, the Account's referralEarnings is
\* its initial value (0 at creation) plus the sum of their bonuses.
C3_NoLostCredit ==
    \A i \in 1..Len(users) :
        ( /\ Cardinality(Creditors(i)) >= 2
          /\ \A r \in PurchaseIds : preq[r].pc \in {"idle", "done"}
          /\ \A r, o \in Creditors(i) :
                r # o => preq[r].body.transactionId # preq[o].body.transactionId )
        => users[i].referralEarnings = SumBonus(Creditors(i))

NotPositive(q) == q.verdict \in {"Rejected", "Indeterminate"}

\* C4: a direct submission whose verifier verdict is Rejected or
\* Indeterminate is answered 400 at that step, never Recorded, and no step
\* it takes inserts a Purchase or changes the raised amount.
C4_VerificationGates ==
    [][\A r \in PurchaseIds :
          (Steps(r) /\ NotPositive(preq'[r]))
          => /\ purchases' = purchases
             /\ RaisedAmount(purchases') = RaisedAmount(purchases)
             /\ Answered(preq'[r])
             /\ preq'[r].res.status = 400
             /\ ~preq'[r].inserted]_vars

C4_Witness ==
    \E r, o \in PurchaseIds :
        /\ preq[r].verdict = "Rejected" /\ Answered(preq[r])
        /\ preq[o].verdict = "Indeterminate" /\ Answered(preq[o])

\* C5 (as claimed): every direct submission of T that arrives after a
\* submission of T was answered Recorded is answered Duplicate, whatever its
\* wallet, amounts or referral code.
C5_LaterIsDuplicate ==
    \A r \in PurchaseIds :
        (preq[r].afterRecorded /\ Answered(preq[r])) => Duplicate(preq[r])

\* C5 (amended): a direct submission of T that arrives after a submission of
\* T was answered Recorded never changes the Purchase ledger or any Account,
\* is never answered Recorded, and is answered Duplicate whenever it passed
\* validation and verification and the handler answers it.
C5_LaterChangesNothing ==
    [][\A r \in PurchaseIds :
          (Steps(r) /\ preq'[r].afterRecorded)
          => /\ purchases' = purchases
             /\ users' = users
             /\ ~Recorded(preq'[r])
             /\ (Answered(preq'[r]) /\ preq'[r].verdict = "Confirmed")
                    => Duplicate(preq'[r])]_vars

C5_Witness ==
    \E r \in PurchaseIds :
        /\ preq[r].afterRecorded /\ Duplicate(preq[r])
        /\ preq[r].verdict = "Confirmed"

MissingOrInvalid(body) ==
    \/ body.walletAddress = "" \/ body.transactionId = ""
    \/ ~body.usdSpent.def \/ ~body.tokensReceived.def
    \/ body.usdSpent.n <= 0 \/ body.tokensReceived.n <= 0

\* C6: a direct submission with a missing wallet, amountSpent, tokensReceived
\* or transactionId, or with amountSpent <= 0 or tokensReceived <= 0, is
\* answered 400 "Missing data" at once: no verifier call, no store change.
C6_InvalidDataRejected ==
    \A r \in PurchaseIds :
        (preq[r].pc # "idle" /\ MissingOrInvalid(preq[r].body))
        => /\ preq[r].res = ErrorJson(400, "Missing data")
           /\ preq[r].verdict = "none"
           /\ ~preq[r].inserted

\* C7: when a direct submission is Recorded by the step that writes the
\* referrer's earnings, and the earnings have not changed since the handler
\* read them, they grow by exactly 5% of usdSpent and no other Account
\* changes.
C7_ExactBonus ==
    [][\A r \in PurchaseIds :
          ( /\ preq[r].pc = "saveRef" /\ Recorded(preq'[r])
            /\ users[preq[r].refUser].referralEarnings = preq[r].refRead )
          => LET k == preq[r].refUser
             IN  /\ Len(users') = Len(users)
                 /\ 100 * (users'[k].referralEarnings - users[k].referralEarnings)
                        = 5 * preq[r].body.usdSpent.n
                 /\ \A i \in 1..Len(users) : i # k => users'[i] = users[i]
                 /\ users'[k].walletAddress = users[k].walletAddress
                 /\ users'[k].referralCode = users[k].referralCode]_vars

C7_Witness ==
    \E r \in PurchaseIds :
        /\ Recorded(preq[r]) /\ preq[r].credited
        /\ preq[r].body.usdSpent = Num(100)
        /\ users[preq[r].refUser].referralEarnings = 5

NoAccountHasCode(code) == \A i \in 1..Len(users) : users[i].referralCode # code

\* C8: when the referral lookup of a direct submission is served and no
\* Account has the submitted code, the request is answered Recorded at that
\* step, its Purchase is in the ledger, and no Account is changed or created.
C8_UnresolvedCodeStillRecorded ==
    [][\A r \in PurchaseIds :
          ( /\ preq[r].pc = "findRef" /\ Steps(r) /\ preq'[r].pc # "unhandled"
            /\ NoAccountHasCode(preq[r].body.referralCode) )
          => /\ Answered(preq'[r]) /\ Recorded(preq'[r])
             /\ users' = users
             /\ purchases' = purchases
             /\ \E i \in 1..Len(purchases) :
                    /\ purchases[i].transactionId = preq[r].body.transactionId
                    /\ purchases[i].referralCodeUsed = preq[r].body.referralCode]_vars

C8_Witness ==
    \E r \in PurchaseIds :
        /\ Recorded(preq[r]) /\ preq[r].inserted /\ ~preq[r].credited
        /\ preq[r].body.referralCode = "REF8"
        /\ Len(users) > 0
        /\ \A i \in 1..Len(users) : users[i].referralEarnings = 0

\* C9: a direct submission whose referral-credit step failed (the Account
\* lookup or the earnings write) keeps its Purchase in the ledger and is
\* answered Recorded (HTTP 200).
C9_CreditFailureStillRecorded ==
    \A r \in PurchaseIds :
        preq[r].failedAt \in {"findRef", "saveRef"}
        => /\ Recorded(preq[r])
           /\ \E i \in 1..Len(purchases) :
                  purchases[i].transactionId = preq[r].body.transactionId

\* C10: a direct submission during which a store operation failed is
\* answered with HTTP 500 and a structured {error} body.
C10_StoreFailureAnswered500 ==
    \A r \in PurchaseIds :
        preq[r].failedAt # "none"
        => preq[r].res.status = 500 /\ preq[r].res.kind = "error"

Finished(q) == q.pc \in {"done", "unhandled"}

\* C11: a direct submission that has finished was answered 200 exactly when
\* this request inserted its Purchase, and a submission answered without
\* inserting one (Rejected or Duplicate) was answered 400.
C11_StatusMatchesOutcome ==
    \A r \in PurchaseIds :
        Finished(preq[r])
        => /\ (preq[r].res.status = 200) <=> preq[r].inserted
           /\ (Answered(preq[r]) /\ ~preq[r].inserted)
                  => /\ preq[r].res.status = 400
                     /\ Rejected(preq[r]) \/ Duplicate(preq[r])

PaysPresale(inst) == inst.parsed /\ inst.destination = PRESALE_WALLET
Positions(batch) ==
    { <<i, j>> \in (1..Len(batch)) \X (1..2) : j <= Len(batch[i].instructions) }

\* C12: a webhook record whose destination is not the presale wallet produces
\* no Purchase (none is inserted for such an instruction, and a transaction
\* with no payment to the presale wallet has no Purchase), is never the
\* instruction at which a batch fails (a batch of such records alone is
\* answered 200), and does not keep the payments of the same batch from
\* being recorded: a batch answered 200 has a Purchase for each of its
\* transactions that pays the presale wallet.
C12_ForeignDestinationSkipped ==
    \A w \in WebhookIds :
        LET q == wreq[w]
        IN  /\ \A p \in q.inserted : PaysPresale(q.batch[p[1]].instructions[p[2]])
            /\ \A i \in 1..Len(q.batch) :
                   (\A j \in 1..Len(q.batch[i].instructions) :
                        ~PaysPresale(q.batch[i].instructions[j]))
                   => FindPurchaseByTx(purchases, q.batch[i].signature) = 0
            /\ q.res = WebhookFailed
                   => PaysPresale(q.batch[q.i].instructions[q.j])
            /\ ( /\ q.pc # "idle"
                 /\ \A p \in Positions(q.batch) :
                        ~PaysPresale(q.batch[p[1]].instructions[p[2]]) )
                   => q.res = WebhookProcessed /\ q.inserted = {}
            /\ q.res = WebhookProcessed
                   => \A p \in Positions(q.batch) :
                          PaysPresale(q.batch[p[1]].instructions[p[2]])
                          => FindPurchaseByTx(purchases, q.batch[p[1]].signature) # 0

C12_Witness ==
    \E w \in WebhookIds :
        /\ wreq[w].res = WebhookProcessed
        /\ wreq[w].batch = << Transaction("t3", Signers(<<"w2">>),
                                          <<Transfer("w3", Num(100 * UnitsPerUsd))>>),
                              Transaction("t2", Signers(<<"w2">>),
                                          <<Transfer("w3", Num(40 * UnitsPerUsd)), Pay(20)>>) >>
        /\ wreq[w].inserted = {<<2, 2>>}
        /\ Len(purchases) = 1

\* a payment the handler can record: it has a signers list and an amount
WellFormedPayment(tx, inst) ==
    PaysPresale(inst) /\ tx.signers.def /\ inst.amount.def

\* C13: when the processing of one webhook record fails (a payment without a
\* signers list or without an amount), the records after it are still
\* processed and the batch is answered 200.
C13_RecordFailureIsolated ==
    \A w \in WebhookIds :
        LET q == wreq[w]
        IN  \A p \in Positions(q.batch) :
                ( /\ q.pc = "done" /\ q.cause \in {"signers", "amount"}
                  /\ p[1] > q.i
                  /\ WellFormedPayment(q.batch[p[1]], q.batch[p[1]].instructions[p[2]]) )
                => /\ q.res = WebhookProcessed
                   /\ FindPurchaseByTx(purchases, q.batch[p[1]].signature) # 0

RECURSIVE TotalOf(_)
TotalOf(ledger) ==
    IF ledger = <<>> THEN 0 ELSE Head(ledger).usdSpent + TotalOf(Tail(ledger))

\* C14: an answer of GET /raised-amount to a served read carries the sum of
\* usdSpent over the Purchases stored at the time of the read, 0 when there
\* is none; the read changes nothing, and it is answered 500 only when the
\* aggregation failed.
C14_RaisedIsLedgerSum ==
    [][raised' # raised
          => /\ purchases' = purchases /\ users' = users
             /\ raised'.res.status \in {200, 500}
             /\ raised'.res.status = 200
                    => /\ raised'.totalUSD = TotalOf(purchases)
                       /\ purchases = <<>> => raised'.totalUSD = 0]_vars

C14_Witness ==
    /\ raised.res.status = 200 /\ raised.totalUSD = 140
    /\ Len(purchases) = 3
    /\ \E w \in WebhookIds : wreq[w].inserted # {}

\* C15: the chain verifier answers positively exactly when the transaction
\* exists on the chain, the claimed wallet is its first account key and the
\* presale account is among its account keys; an error during the check (the
\* node call failing, a response without account keys, a claimed wallet that
\* is no public key) is not a positive answer.
C15_VerifierPositiveIff ==
    \A r \in PurchaseIds :
        LET q == preq[r]
            keys == q.txInfo.accountKeys
        IN  q.isValid # "none"
            => /\ (q.isValid = "true")
                    <=> /\ q.txInfo = Ledger(q.body.transactionId)
                        /\ q.txInfo.kind = "found"
                        /\ Len(keys) > 0
                        /\ keys[1] = q.body.walletAddress
                        /\ \E k \in 1..Len(keys) : keys[k] = PRESALE_WALLET
               /\ ( \/ q.txInfo.kind \in {"throw", "malformed"}
                    \/ ~IsPublicKey(q.body.walletAddress) )
                    => q.isValid # "true"

C15_Witness ==
    \E r, o \in PurchaseIds :
        /\ preq[r].isValid = "true" /\ preq[r].body.transactionId = "t2"
        /\ preq[o].isValid = "false" /\ preq[o].body.transactionId = "t2"
        /\ preq[o].body.walletAddress = "w3" /\ preq[o].txInfo.kind = "found"

\* C16: a direct submission whose verifier verdict is Indeterminate (the
\* check itself failed) is answered 400 with the "unable to validate"
\* message, not with the "invalid transaction" one.
C16_IndeterminateUnableToValidate ==
    \A r \in PurchaseIds :
        (preq[r].verdict = "Indeterminate" /\ Answered(preq[r]))
        => preq[r].res = ErrorJson(400, "Unable to validate transaction.")

\* C17: every Purchase in the ledger has usdSpent > 0 and tokensReceived > 0.
C17_StoredAmountsPositive ==
    \A i \in 1..Len(purchases) :
        purchases[i].usdSpent > 0 /\ purchases[i].tokensReceived > 0

\* C18: the referralEarnings of every Account are never negative and no
\* step lowers them.
C18_EarningsMonotone ==
    [][\A i \in 1..Len(users) :
          /\ users'[i].referralEarnings >= users[i].referralEarnings
          /\ users'[i].referralEarnings >= 0]_vars

\* C19: no two Accounts have the same walletAddress, and no two Accounts
\* have the same referral code (unless it is null), whatever lazy creations
\* run concurrently and whatever codes they draw.
C19_UniqueWalletAndCode ==
    \A i, j \in 1..Len(users) :
        i # j => /\ users[i].walletAddress # users[j].walletAddress
                 /\ \/ users[i].referralCode # users[j].referralCode
                    \/ users[i].referralCode = Null

C19_Witness ==
    \E u \in UserIds, f \in ProfileIds :
        /\ ureq[u].walletAddress = freq[f].walletAddress
        /\ ureq[u].pc = "done" /\ freq[f].pc = "done"
        /\ ~ureq[u].found /\ freq[f].user = 0
        /\ ureq[u].cause # "store"
        /\ ureq[u].created # freq[f].created
        /\ Len(users) = 1

\* C20 (as claimed): once a GET /user whose lookup found no Account for the
\* wallet has finished, with its store calls all served, the wallet has an
\* Account (created by this request, or by a concurrent one).
C20_AbsentWalletAlwaysCreated ==
    \A u \in UserIds :
        (ureq[u].pc = "done" /\ ~ureq[u].found /\ ureq[u].cause # "store")
        => FindUserByWallet(users, ureq[u].walletAddress) # 0

\* C20 (amended): a GET /user whose lookup finds no Account either inserts
\* exactly one Account (that wallet, code REF<n> with 0 <= n <= 99999,
\* earnings 0) and answers 200 with it, or answers 500 and inserts nothing,
\* which happens only when a store call failed or a unique index refused the
\* insert (the wallet got an Account meanwhile, or the code is taken).  A GET
\* /user whose lookup finds the Account changes nothing and answers 200 with
\* the stored code and earnings; no step changes the wallet or the code of
\* an Account.
C20_LazyCreation ==
    [][/\ \A i \in 1..Len(users) :
              /\ users'[i].walletAddress = users[i].walletAddress
              /\ users'[i].referralCode = users[i].referralCode
       /\ \A u \in UserIds :
            LET q == ureq[u]
                a == ureq'[u]
            IN  a # q
                => /\ purchases' = purchases
                   /\ q.pc = "find" => users' = users
                   /\ (q.pc = "find" /\ a.found)
                         => /\ a.res = DataJson /\ ~a.created
                            /\ \E i \in 1..Len(users) :
                                 /\ users[i].walletAddress = q.walletAddress
                                 /\ a.referralCode = users[i].referralCode
                                 /\ a.referralEarnings = users[i].referralEarnings
                   /\ (q.pc = "save" /\ a.created)
                         => /\ 0 <= q.n /\ q.n <= 99999
                            /\ users' = Append(users,
                                  [walletAddress |-> q.walletAddress,
                                   referralCode |-> "REF" \o ToString(q.n),
                                   referralEarnings |-> 0, displayName |-> "",
                                   avatarUrl |-> ""])
                            /\ \A i \in 1..Len(users) :
                                   users[i].walletAddress # q.walletAddress
                            /\ a.res = DataJson
                            /\ a.referralCode = "REF" \o ToString(q.n)
                            /\ a.referralEarnings = 0
                   /\ (q.pc = "save" /\ ~a.created)
                         => /\ users' = users
                            /\ a.res = ErrorJson(500, "Failed to get user info")
                            /\ \/ a.cause = "store"
                               \/ \E i \in 1..Len(users) :
                                    \/ users[i].walletAddress = q.walletAddress
                                    \/ users[i].referralCode = q.referralCode]_vars

C20_Witness ==
    \E u \in UserIds :
        /\ ureq[u].created /\ ureq[u].res = DataJson
        /\ ureq[u].walletAddress = "w2" /\ ureq[u].referralCode = "REF8"
        /\ Len(users) = 2
        /\ users[2] = [walletAddress |-> "w2", referralCode |-> "REF8",
                       referralEarnings |-> 0, displayName |-> "",
                       avatarUrl |-> ""]

\* C21: a Purchase that is in the ledger stays in it, at the same place and
\* with the same walletAddress, usdSpent, tokensReceived, transactionId and
\* referralCodeUsed, whatever step follows.
C21_PurchaseImmutable ==
    [][/\ Len(purchases') >= Len(purchases)
       /\ \A i \in 1..Len(purchases) : purchases'[i] = purchases[i]]_vars

C21_Witness ==
    /\ Len(purchases) = 3
    /\ purchases[1].tokensReceived # purchases[2].tokensReceived
    /\ purchases[1].transactionId = purchases[2].transactionId
    /\ \A r \in PurchaseIds : Recorded(preq[r])

TakesStep(w) == wreq'[w] # wreq[w]

\* C23: the webhook path stores a payment to the presale wallet whose
\* transactionId is not in the ledger without asking the chain verifier (a
\* served lookup that finds nothing goes on to the insert, a served insert
\* stores the record, and a batch answered 200 has a Purchase for each of its
\* payments, whatever the verifier would say of them), while a step of the
\* direct path inserts a Purchase only after a positive verdict.
C23_WebhookUnverifiedDirectVerified ==
    /\ [](\A w \in WebhookIds :
            wreq[w].res = WebhookProcessed
            => \A p \in Positions(wreq[w].batch) :
                   PaysPresale(wreq[w].batch[p[1]].instructions[p[2]])
                   => FindPurchaseByTx(purchases, wreq[w].batch[p[1]].signature) # 0)
    /\ [][/\ \A w \in WebhookIds :
               LET q == wreq[w]
               IN  (TakesStep(w) /\ wreq'[w].cause = "none")
                   => /\ (q.pc = "find"
                            /\ FindPurchaseByTx(purchases, q.batch[q.i].signature) = 0)
                         => wreq'[w].pc = "save"
                      /\ q.pc = "save"
                         => /\ Len(purchases') = Len(purchases) + 1
                            /\ purchases'[Len(purchases')].transactionId
                                   = q.batch[q.i].signature
                            /\ purchases'[Len(purchases')].walletAddress
                                   = q.batch[q.i].signers.keys[1]
          /\ \A r \in PurchaseIds :
               (Steps(r) /\ purchases' # purchases)
               => /\ preq[r].isValid = "true"
                  /\ preq[r].verdict = "Confirmed"
                  /\ preq[r].txInfo = Ledger(preq[r].body.transactionId)
                  /\ preq[r].txInfo.accountKeys[1] = preq[r].body.walletAddress]_vars

C23_Witness ==
    /\ Verdict(Ledger("t2"), "w2") = "Rejected"
    /\ \E i \in 1..Len(purchases) :
         purchases[i].transactionId = "t2" /\ purchases[i].walletAddress = "w2"
    /\ \E w \in WebhookIds : wreq[w].inserted # {} /\ wreq[w].batch[1].signature = "t2"
    /\ \E r \in PurchaseIds :
         /\ preq[r].body.transactionId = "t2" /\ preq[r].body.walletAddress = "w2"
         /\ preq[r].res = ErrorJson(400, "Invalid or fake transaction.")
         /\ ~preq[r].inserted

FalsyField(body) ==
    \/ body.walletAddress = "" \/ body.transactionId = ""
    \/ ~body.usdSpent.def \/ ~body.tokensReceived.def
    \/ body.usdSpent.n = 0 \/ body.tokensReceived.n = 0

\* C24: the steps of a direct submission short-circuit in order.  A request
\* with a missing field is answered "Missing data" with no call made; a
\* request the verifier does not confirm is answered after the verifier call
\* alone, with no store access; a Duplicate is answered after the verifier
\* call and the ledger lookup alone, with no referral lookup; and the step
\* that answers Rejected or Duplicate inserts no Purchase and changes no
\* Account, nor did any earlier step of the request.
C24_ShortCircuit ==
    /\ [](\A r \in PurchaseIds :
            LET q == preq[r]
            IN  /\ (q.pc # "idle" /\ FalsyField(q.body))
                      => q.res = ErrorJson(400, "Missing data")
                /\ q.res = ErrorJson(400, "Missing data")
                      => q.calls = {} /\ q.isValid = "none"
                /\ (q.isValid \notin {"none", "true"})
                      => /\ Rejected(q) /\ q.calls = {"getTransaction"}
                /\ Duplicate(q) => q.calls = {"getTransaction", "findTx"}
                /\ (Rejected(q) \/ Duplicate(q))
                      => /\ q.pc = "done" /\ ~q.inserted /\ ~q.credited
                         /\ q.refUser = 0)
    /\ [][\A r \in PurchaseIds :
            (Steps(r) /\ (Rejected(preq'[r]) \/ Duplicate(preq'[r])))
            => purchases' = purchases /\ users' = users]_vars

C24_Witness ==
    \E r, o \in PurchaseIds :
        /\ Duplicate(preq[r]) /\ preq[r].body.referralCode = "REF7"
        /\ Len(users) = 1 /\ users[1].referralCode = "REF7"
        /\ users[1].referralEarnings = 5
        /\ preq[o].credited

\* C25: a step changes the referralEarnings of a stored Account only if it
\* is the earnings write of a POST /purchase crediting that Account; every
\* step of GET /user, update-profile, upload-avatar, the webhook and the read
\* endpoints leaves the earnings of every stored Account as they were, also
\* with a credit to the Account in flight.
C25_OnlyCreditChangesEarnings ==
    [][/\ Len(users') >= Len(users)
       /\ \A i \in 1..Len(users) :
            users'[i].referralEarnings # users[i].referralEarnings
            => \E r \in PurchaseIds :
                   /\ preq[r].pc = "saveRef" /\ preq'[r].credited
                   /\ preq[r].refUser = i
       /\ (\/ ureq' # ureq \/ freq' # freq \/ areq' # areq \/ wreq' # wreq
           \/ raised' # raised \/ board' # board)
            => \A i \in 1..Len(users) :
                   users'[i].referralEarnings = users[i].referralEarnings]_vars

\* an avatar was saved between the read and the write of a credit, and the
\* credit is in the Account with the avatar and the display name
C25_Witness ==
    /\ Len(users) = 1
    /\ users[1].referralEarnings = 0
    /\ users[1].displayName = "Al"
    /\ \E r \in PurchaseIds : preq[r].pc = "saveRef" /\ preq[r].refRead = 0
    /\ \E a \in AvatarIds : areq[a].pc = "save"
    /\ raised.res # NoResponse

\* the Purchase a direct submission with this body is to store
Submitted(body) ==
    [walletAddress |-> body.walletAddress,
     usdSpent |-> body.usdSpent.n,
     tokensReceived |-> body.tokensReceived.n,
     transactionId |-> body.transactionId,
     referralCodeUsed |-> IF body.referralCode = "" THEN Null
                          ELSE body.referralCode]

\* C26: the step of a direct submission that stores its Purchase appends one
\* document with the submitted wallet, amount, token count and transaction
\* id, and the submitted referral code as given (null when none was given);
\* every submission answered Recorded has that document in the ledger,
\* whether its code resolved to an Account or not.
C26_StoredAsSubmitted ==
    /\ [](\A r \in PurchaseIds :
            preq[r].res = PurchaseRecordedMessage
            => \E p \in 1..Len(purchases) : purchases[p] = Submitted(preq[r].body))
    /\ [][\A r \in PurchaseIds :
            preq'[r].inserted /\ ~preq[r].inserted
            => purchases' = Append(purchases, Submitted(preq[r].body))]_vars

\* two submissions of t1 were Recorded: one named a code that resolved to no
\* Account, one named no code
C26_Witness ==
    \E r, o \in PurchaseIds :
        /\ preq[r].res = PurchaseRecordedMessage
        /\ preq[r].body.referralCode = "REF7"
        /\ "findRef" \in preq[r].calls /\ ~preq[r].credited
        /\ preq[o].res = PurchaseRecordedMessage
        /\ preq[o].body.referralCode = ""
        /\ \E p, q \in 1..Len(purchases) :
              /\ purchases[p].referralCodeUsed = "REF7"
              /\ purchases[q].referralCodeUsed = Null

\* the Account that has both the wallet and the referral code of the body
OwnAccount(body) ==
    FirstIndex({ i \in 1..Len(users) :
                    /\ users[i].walletAddress = body.walletAddress
                    /\ users[i].referralCode = body.referralCode })

\* C27: a direct submission that reached the referral step with the code of
\* its own wallet's Account is treated like any other: the lookup, when
\* served, resolves to that Account, and the earnings write, when served,
\* answers Recorded and raises that Account's earnings by 5% of usdSpent
\* (over the value they had when the handler read them).
C27_SelfReferralCredited ==
    [][\A r \in PurchaseIds :
          OwnAccount(preq[r].body) # 0
          => LET k == OwnAccount(preq[r].body)
             IN  /\ ( preq[r].pc = "findRef" /\ Steps(r)
                      /\ preq'[r].pc # "unhandled" )
                     => /\ preq'[r].pc = "saveRef"
                        /\ preq'[r].refUser = k
                        /\ preq[r].inserted
                 /\ ( preq[r].pc = "saveRef" /\ Steps(r)
                      /\ preq'[r].pc # "unhandled" )
                     => /\ Recorded(preq'[r]) /\ preq'[r].credited
                        /\ preq[r].refUser = k
                        /\ 100 * (users'[k].referralEarnings - preq[r].refRead)
                               = 5 * preq[r].body.usdSpent.n]_vars

\* w1 bought for 100 with its own code REF7 and its Account holds the 5
C27_Witness ==
    \E r \in PurchaseIds :
        /\ Recorded(preq[r]) /\ preq[r].credited
        /\ preq[r].body.usdSpent = Num(100)
        /\ preq[r].body.walletAddress = users[preq[r].refUser].walletAddress
        /\ preq[r].body.referralCode = users[preq[r].refUser].referralCode
        /\ users[preq[r].refUser].referralEarnings = 5
        /\ \E p \in 1..Len(purchases) :
              /\ purchases[p].walletAddress = preq[r].body.walletAddress
              /\ purchases[p].referralCodeUsed = preq[r].body.referralCode

\* the ledger holds a Purchase of the transaction, stored without a code
\* (as the webhook stores it)
RecordedWithoutCode(transactionId) ==
    \E p \in 1..Len(purchases) :
        /\ purchases[p].transactionId = transactionId
        /\ purchases[p].referralCodeUsed = Null

\* C28: when the webhook has recorded a transaction before the duplicate
\* check of a direct submission of it, the submission ends in Duplicate at
\* that check and changes neither ledger; a submission that ended in
\* Duplicate has stored nothing and credited nobody; and as long as no
\* direct submission has stored a Purchase, every Purchase is without
\* referralCodeUsed and no Account has earnings: the referrer is not credited
\* for the transaction, although the submitted code resolves.
C28_WebhookFirstNoCredit ==
    /\ [][\A r \in PurchaseIds :
            ( /\ preq[r].pc = "findTx" /\ Steps(r) /\ preq'[r].pc # "unhandled"
              /\ RecordedWithoutCode(preq[r].body.transactionId) )
            => /\ Duplicate(preq'[r]) /\ Answered(preq'[r])
               /\ purchases' = purchases /\ users' = users]_vars
    /\ [](\A r \in PurchaseIds :
            Duplicate(preq[r])
            => /\ ~preq[r].inserted /\ ~preq[r].credited
               /\ preq[r].calls \cap {"saveTx", "findRef", "saveRef"} = {})
    /\ []((\A r \in PurchaseIds : ~preq[r].inserted)
            => /\ \A p \in 1..Len(purchases) : purchases[p].referralCodeUsed = Null
               /\ \A i \in 1..Len(users) : users[i].referralEarnings = 0)

\* the webhook stored t1, then w1 submitted t1 with REF7, the code of an
\* existing Account: Duplicate, one Purchase without code, no earnings
C28_Witness ==
    /\ Len(purchases) = 1
    /\ purchases[1].transactionId = "t1"
    /\ purchases[1].referralCodeUsed = Null
    /\ \E w \in WebhookIds : wreq[w].res = WebhookProcessed /\ wreq[w].inserted # {}
    /\ \E r \in PurchaseIds :
          /\ Duplicate(preq[r])
          /\ preq[r].body.transactionId = "t1"
          /\ FindUserByCode(users, preq[r].body.referralCode) # 0
    /\ \A i \in 1..Len(users) : users[i].referralEarnings = 0

\* position p of the batch comes before position o, in the order of the loops
Before(p, o) == p[1] < o[1] \/ (p[1] = o[1] /\ p[2] < o[2])
AllPositions(batch) ==
    { p \in (1..Len(batch)) \X (1..3) : p[2] <= Len(batch[p[1]].instructions) }
\* the payments to the presale wallet that a batch holds for a signature
PaymentsOf(batch, signature) ==
    { p \in AllPositions(batch) :
          /\ batch[p[1]].signature = signature
          /\ PaysPresale(batch[p[1]].instructions[p[2]]) }

\* C29: with one webhook batch handled at a time and no other writer, the
\* ledger has at most one Purchase per transaction; a batch stores at most one
\* Purchase for a signature, for the first payment to the presale wallet that
\* the batch holds for it, with that instruction's amount; and a batch
\* answered 200 leaves exactly one Purchase for each transaction it pays the
\* presale wallet with, however many payments it holds for it.
C29_OnePurchasePerTransaction ==
    /\ \A a, b \in 1..Len(purchases) :
           purchases[a].transactionId = purchases[b].transactionId => a = b
    /\ \A w \in WebhookIds :
           LET q == wreq[w]
           IN  /\ \A p \in q.inserted :
                    LET tx == q.batch[p[1]]
                    IN  /\ p \in PaymentsOf(q.batch, tx.signature)
                        /\ \A o \in PaymentsOf(q.batch, tx.signature) : ~Before(o, p)
                        /\ \A o \in q.inserted :
                               q.batch[o[1]].signature = tx.signature => o = p
                        /\ \E a \in 1..Len(purchases) :
                               /\ purchases[a].transactionId = tx.signature
                               /\ purchases[a].usdSpent * UnitsPerUsd
                                      = tx.instructions[p[2]].amount.n
               /\ q.res = WebhookProcessed
                    => \A i \in 1..Len(q.batch) :
                           PaymentsOf(q.batch, q.batch[i].signature) # {}
                           => Cardinality({ a \in 1..Len(purchases) :
                                  purchases[a].transactionId = q.batch[i].signature }) = 1

\* a batch with t1 paying 100 and 20 in one record and 40 in a second record
\* was answered 200 and left one Purchase of t1, for 100
C29_Witness ==
    \E w \in WebhookIds :
        /\ wreq[w].res = WebhookProcessed
        /\ wreq[w].batch = << Transaction("t1", Signers(<<"w1">>), <<Pay(100), Pay(20)>>),
                              Transaction("t1", Signers(<<"w1">>), <<Pay(40)>>) >>
        /\ wreq[w].inserted = {<<1, 1>>}
        /\ Len(purchases) = 1
        /\ purchases[1].usdSpent = 100

\* C30: the step of the webhook handler that stores a Purchase appends one
\* document whose wallet is the first signer of the record (none when the
\* signers list is empty), whose usdSpent is the instruction's amount divided
\* by 10^6, whose transactionId is the record's signature and which has no
\* referralCodeUsed; with the webhook as the only writer every Purchase of
\* the ledger is without referralCodeUsed.
C30_WebhookPurchaseFields ==
    /\ [](\A a \in 1..Len(purchases) : purchases[a].referralCodeUsed = Null)
    /\ [][\A w \in WebhookIds :
            wreq'[w].inserted # wreq[w].inserted
            => LET q == wreq[w]
                   tx == q.batch[q.i]
                   inst == tx.instructions[q.j]
                   doc == purchases'[Len(purchases')]
               IN  /\ wreq'[w].inserted = q.inserted \cup {<<q.i, q.j>>}
                   /\ Len(purchases') = Len(purchases) + 1
                   /\ SubSeq(purchases', 1, Len(purchases)) = purchases
                   /\ doc.walletAddress = IF tx.signers.keys = <<>> THEN Null
                                          ELSE Head(tx.signers.keys)
                   /\ doc.usdSpent * UnitsPerUsd = inst.amount.n
                   /\ doc.transactionId = tx.signature
                   /\ doc.referralCodeUsed = Null]_vars

\* t2, signed by w2 then w1 and paying 20, and t4, signed by w3 and paying 60
\* in its second instruction, are in the ledger as delivered
C30_Witness ==
    /\ Len(purchases) = 2
    /\ purchases[1] = [walletAddress |-> "w2", usdSpent |-> 20,
                       tokensReceived |-> purchases[1].tokensReceived,
                       transactionId |-> "t2", referralCodeUsed |-> Null]
    /\ purchases[2].walletAddress = "w3"
    /\ purchases[2].usdSpent = 60
    /\ purchases[2].transactionId = "t4"
    /\ \E w \in WebhookIds :
          wreq[w].res = WebhookProcessed /\ wreq[w].inserted = {<<1, 1>>, <<2, 2>>}

====
